---------------------------- MODULE Spec2Model ----------------------------
(***************************************************************************)
(* Interview-invitation batch (sailwalpranjal/Weekday).                    *)
(*                                                                         *)
(* The model follows src/src/index.ts (processRecords and its helpers),    *)
(* src/src/utils.ts, src/src/roundSplitter.ts and src/src/airtableClient.ts*)
(* One process runs processRecords over the rows of a CSV file; the        *)
(* Airtable table (store) outlives the process, so several runs over the   *)
(* same input follow one another.                                          *)
(*                                                                         *)
(* Text is modelled as TLA+ strings; where the code looks inside a text    *)
(* (the e-mail regex, the lines of the scheduling method) the text is a    *)
(* sequence of characters, or of lines made of words.  Instants are        *)
(* milliseconds; the clock moves in steps of 500 ms so that the halves     *)
(* Math.round has to round do occur.                                       *)
(***************************************************************************)
EXTENDS Integers, Sequences, FiniteSets, TLC

VARIABLES
  csvData,         \* index.ts:68   the rows parsed from the CSV file
  FORCE_SEND,      \* index.ts:26   process.env.FORCE_SEND === 'true'
  store,           \* the Airtable table: a sequence of records, id = position
  pc,              \* "idle" | "rows" | "returned" | "fatal"
  i,               \* index.ts:124  row index of the for loop (0-based)
  r,               \* index.ts:152  position in rounds of the row (1-based)
  result,          \* index.ts:112  the ProcessingResult counters
  tatValues,       \* index.ts:121
  quotaExhausted,  \* index.ts:122
  now,             \* the wall clock, in 500 ms ticks
  runs,            \* number of processes started so far
  faults,          \* requests the two services have refused so far
  \* ---- observation of the run, never read by the program ----
  notifierCalls,   \* sendInvitationEmail invocations of this run
  quotaReturned,   \* some invocation of this run returned quota_exhausted
  lastUnit,        \* what the last loop iteration over a round did
  prevRun,         \* how the previous process ended, whether a write failed,
                   \* its keys and the rows it read
  thisRun,         \* the same for the current process
  createFailed,    \* keys whose latest write was a create the store refused
  \* ---- a helper called on its own, outside a run ----
  call,            \* the function called and its arguments
  ret              \* <<value returned>>, <<>> before the call returns

vars == <<csvData, FORCE_SEND, store, pc, i, r, result, tatValues,
          quotaExhausted, now, runs, faults, notifierCalls, quotaReturned,
          lastUnit, prevRun, thisRun, createFailed, call, ret>>

Null == "null"   \* JavaScript null

----------------------------------------------------------------------------
(* Bounds of the model *)

MaxRows == 2     \* rows in the CSV file
MaxRuns == 2     \* processes run one after the other against the same table
MaxTicks == 1    \* the clock stops after this many ticks
MaxFaults == 2   \* requests the store and the notifier refuse in all
MaxLines == 3    \* lines of a scheduling text given to splitRounds alone
MaxArgs == 3     \* words on the command line after the script

----------------------------------------------------------------------------
(* Text helpers *)

RECURSIVE Join(_)
Join(chars) == IF chars = <<>> THEN "" ELSE Head(chars) \o Join(Tail(chars))

\* ${rowIndex} inside a template literal
IndexText(n) == CASE n = 0 -> "0" [] n = 1 -> "1" [] n = 2 -> "2" [] n = 3 -> "3"
                  [] n = 4 -> "4" [] OTHER -> "5"

RECURSIVE TrimLeft(_)
TrimLeft(chars) ==
  IF chars # <<>> /\ Head(chars) = " " THEN TrimLeft(Tail(chars)) ELSE chars

RECURSIVE TrimRight(_)
TrimRight(chars) ==
  IF chars # <<>> /\ chars[Len(chars)] = " "
    THEN TrimRight(SubSeq(chars, 1, Len(chars) - 1)) ELSE chars

Trim(chars) == TrimRight(TrimLeft(chars))

----------------------------------------------------------------------------
(* utils.ts *)

\* Fault injected: the regex without its "\.[^\s@]+" tail
isValidEmail_NoDotNeeded(email) ==
  LET t == Trim(email) IN
  /\ email # <<>>
  /\ \E a \in 1..Len(t) :
       /\ t[a] = "@"
       /\ a > 1 /\ a < Len(t)
       /\ \A k \in 1..Len(t) : t[k] # " " /\ (k # a => t[k] # "@")

\* /^[^\s@]+@[^\s@]+\.[^\s@]+$/ on email.trim(): one "@" with something before
\* it, no blank anywhere, and after the "@" a "." with something on both sides.
isValidEmail(email) ==
  LET t == Trim(email) IN
  /\ email # <<>>
  /\ \E a \in 1..Len(t) :
       /\ t[a] = "@"
       /\ a > 1
       /\ \A k \in 1..Len(t) : t[k] # " " /\ (k # a => t[k] # "@")
       /\ \E p \in (a + 2)..(Len(t) - 1) : t[p] = "."

\* The words a link can be.  new URL() and the host allow-list are the
\* runtime's; they are tabulated on this vocabulary.
LinkWords == {"https://calendly.com/a", "https://calendly.com/b",
              "https://zoom.example/j", "https://[bad", "https:cal.com/c"}

\* /(https?:\/\/[^\s]+)/i on one word: the part from "http(s)://" on
HttpPart(word) ==
  IF word \in {"https://calendly.com/a", "https://calendly.com/b",
               "https://zoom.example/j", "https://[bad"}
    THEN word ELSE Null

\* new URL(text) succeeds
UrlParses(word) ==
  word \in {"https://calendly.com/a", "https://calendly.com/b",
            "https://zoom.example/j", "https:cal.com/c"}

UrlProtocol(word) == IF word \in LinkWords THEN "https:" ELSE "other:"

UrlHostAllowed(word) ==
  word \in {"https://calendly.com/a", "https://calendly.com/b", "https:cal.com/c"}

validateUrl(url) ==
  IF url = Null \/ url = "" THEN [valid |-> FALSE, unverifiedDomain |-> FALSE]
  ELSE IF ~UrlParses(url) THEN [valid |-> FALSE, unverifiedDomain |-> FALSE]
  ELSE IF UrlProtocol(url) # "http:" /\ UrlProtocol(url) # "https:"
    THEN [valid |-> FALSE, unverifiedDomain |-> FALSE]
  ELSE IF ~UrlHostAllowed(url) THEN [valid |-> TRUE, unverifiedDomain |-> TRUE]
  ELSE [valid |-> TRUE, unverifiedDomain |-> FALSE]

\* The "Added On" texts of the model and the instant (ms) chrono reads in
\* each; the clock starts at 0.
\* A Date is <<ms>>, null is <<>>.
parseAddedOnDate(dateStr) ==
  CASE dateStr = "03 Nov 6:15"        -> <<-1500>>
    [] dateStr = "2099-01-01 00:00"   -> <<60000>>
    [] dateStr = "today 00:00:00.5"   -> <<500>>
    [] OTHER                          -> <<>>

toISOString(date) == <<"iso", date[1]>>

\* Math.round(x / d) for d > 0: floor(x / d + 1/2)
RoundDiv(x, d) == (2 * x + d) \div (2 * d)

\* Fault injected: the operands of the difference are exchanged
calculateTAT_Swapped(mailSentAt, addedOn) ==
  RoundDiv(addedOn[1] - mailSentAt[1], 1000)

\* Fault injected: a negative difference is reported as 0
calculateTAT_Clamped(mailSentAt, addedOn) ==
  IF mailSentAt[1] < addedOn[1] THEN 0
  ELSE RoundDiv(mailSentAt[1] - addedOn[1], 1000)

calculateTAT(mailSentAt, addedOn) == RoundDiv(mailSentAt[1] - addedOn[1], 1000)

\* dateNow is what Date.now() returns when isInFuture runs
isInFuture(date, dateNow) == date[1] > dateNow

\* Fault injected: the row index is left out of the identifier
createSourceIdentifier_NoIndex(row, rowIndex) ==
  row.Company \o "_" \o row.Candidate \o "_" \o Join(row.CandidateEmail)
    \o "_" \o row.AddedOn

createSourceIdentifier(row, rowIndex) ==
  row.Company \o "_" \o row.Candidate \o "_" \o Join(row.CandidateEmail)
    \o "_" \o row.AddedOn \o "_" \o IndexText(rowIndex)

\* Fault injected: the digest takes in the reading of the clock
generateIdempotencyKey_Salted(sourceIdentifier, roundName, candidateEmail) ==
  <<"sha256", sourceIdentifier \o "|" \o roundName \o "|" \o candidateEmail
                \o "|" \o IndexText(now)>>

\* Fault injected: the source identifier is left out of the digest
generateIdempotencyKey_NoSource(sourceIdentifier, roundName, candidateEmail) ==
  <<"sha256", roundName \o "|" \o candidateEmail>>

\* SHA-256 is taken to be injective on the texts of the model: the digest is
\* written as the text it digests.
generateIdempotencyKey(sourceIdentifier, roundName, candidateEmail) ==
  <<"sha256", sourceIdentifier \o "|" \o roundName \o "|" \o candidateEmail>>

----------------------------------------------------------------------------
(* roundSplitter.ts *)

\* A line of the scheduling method, already trimmed, is written
\*   label digits [":"] rest
\* where label is the text before the first digit or word separator ("" when
\* the line starts with a word of rest), and rest is a sequence of words.
RoundLabels == {"Round", "round", "Round ", "R", "r", "R "}

Line(label, digits, colon, rest) ==
  [label |-> label, digits |-> digits, colon |-> colon, rest |-> rest]

isUrl(words) ==
  /\ Len(words) = 1
  /\ UrlParses(words[1])
  /\ UrlProtocol(words[1]) \in {"http:", "https:"}

RECURSIVE FirstHttpPart(_)
FirstHttpPart(words) ==
  IF words = <<>> THEN Null
  ELSE IF HttpPart(Head(words)) # Null THEN HttpPart(Head(words))
  ELSE FirstHttpPart(Tail(words))

\* Fault injected: only the "http(s)://" pattern is looked for
extractUrl_PatternOnly(words) ==
  IF words = <<>> THEN Null ELSE FirstHttpPart(words)

extractUrl(words) ==
  IF words = <<>> THEN Null
  ELSE IF FirstHttpPart(words) # Null THEN FirstHttpPart(words)
  ELSE IF isUrl(words) THEN words[1]
  ELSE Null

\* "Round " followed by the first run of digits of the label
normalizeRoundName(digits) == "Round " \o digits

\* /^(Round\s*\d+|R\s*\d+)\s*:\s*(.+)$/i
MatchesRoundPattern(line) ==
  line.label \in RoundLabels /\ line.digits # "" /\ line.colon /\ line.rest # <<>>

\* line.toLowerCase().startsWith('round') || ...startsWith('r')
StartsWithR(line) ==
  \/ line.label \in RoundLabels \cup {"Re", "room"}
  \/ line.label = "" /\ line.rest # <<>> /\ Head(line.rest) \in {"reschedule", "rtbd"}

\* /^(Round\s*\d+|R\s*\d+)/i
MatchesRoundOnlyPattern(line) == line.label \in RoundLabels /\ line.digits # ""

LineWords(line) == IF line.label = "" /\ line.digits = "" /\ ~line.colon
                     THEN line.rest ELSE <<line.label>> \o line.rest

\* Fault injected: seenRounds is never consulted
Names_None(rounds) == {}

Names(rounds) == {rounds[k].roundName : k \in 1..Len(rounds)}

\* Fault injected: a bare link is pushed whether or not its inferred name
\* was seen
splitLine_NoCollisionTest(rounds, line) ==
  IF MatchesRoundPattern(line) THEN
    LET roundName == normalizeRoundName(line.digits) IN
    IF roundName \notin Names(rounds)
      THEN Append(rounds, [roundName |-> roundName,
                           roundLink |-> extractUrl(line.rest)])
      ELSE rounds
  ELSE IF StartsWithR(line) THEN
    IF MatchesRoundOnlyPattern(line) THEN
      LET roundName == normalizeRoundName(line.digits) IN
      IF roundName \notin Names(rounds)
        THEN Append(rounds, [roundName |-> roundName, roundLink |-> Null])
        ELSE rounds
    ELSE rounds
  ELSE IF isUrl(LineWords(line)) THEN
    Append(rounds, [roundName |-> "Round " \o IndexText(Len(rounds) + 1),
                    roundLink |-> line.rest[1]])
  ELSE rounds

\* One pass of the for loop over the lines (roundSplitter.ts:27-69);
\* seenRounds is the set of the names pushed so far.
splitLine(rounds, line) ==
  IF MatchesRoundPattern(line) THEN
    LET roundName == normalizeRoundName(line.digits) IN
    IF roundName \notin Names(rounds)
      THEN Append(rounds, [roundName |-> roundName,
                           roundLink |-> extractUrl(line.rest)])
      ELSE rounds
  ELSE IF StartsWithR(line) THEN
    IF MatchesRoundOnlyPattern(line) THEN
      LET roundName == normalizeRoundName(line.digits) IN
      IF roundName \notin Names(rounds)
        THEN Append(rounds, [roundName |-> roundName, roundLink |-> Null])
        ELSE rounds
    ELSE rounds
  ELSE IF isUrl(LineWords(line)) THEN
    LET inferredRoundName == "Round " \o IndexText(Len(rounds) + 1) IN
    IF inferredRoundName \notin Names(rounds)
      THEN Append(rounds, [roundName |-> inferredRoundName,
                           roundLink |-> line.rest[1]])
      ELSE rounds
  ELSE rounds

RECURSIVE splitLines(_, _)
splitLines(rounds, lines) ==
  IF lines = <<>> THEN rounds
  ELSE splitLines(splitLine(rounds, Head(lines)), Tail(lines))

RECURSIVE AllWords(_)
AllWords(lines) ==
  IF lines = <<>> THEN <<>> ELSE LineWords(Head(lines)) \o AllWords(Tail(lines))

\* Fault injected: no unit is made up when no line gave one
splitRounds_NoFallback(schedulingMethod) ==
  IF schedulingMethod = <<>> THEN <<>> ELSE splitLines(<<>>, schedulingMethod)

\* schedulingMethod is the sequence of its non-blank lines; the empty
\* sequence is the empty or blank text.
splitRounds(schedulingMethod) ==
  IF schedulingMethod = <<>> THEN <<>>
  ELSE LET rounds == splitLines(<<>>, schedulingMethod) IN
       IF rounds = <<>>
         THEN <<[roundName |-> "Round 1",
                 roundLink |-> extractUrl(AllWords(schedulingMethod))]>>
         ELSE rounds

----------------------------------------------------------------------------
(* csvParser.ts (the last part of src/src/index.ts) *)

IsBlankText(s) == s \in {"", " "}

\* Fault injected: every row is taken to be complete
validateCsvRow_AcceptsAll(row) == Null

\* null when the row is complete, else the error text
validateCsvRow(row) ==
  IF IsBlankText(row.Company) THEN "Missing required field: Company"
  ELSE IF IsBlankText(row.Interviewer) THEN "Missing required field: Interviewer"
  ELSE IF IsBlankText(row.InterviewerEmail)
    THEN "Missing required field: Interviewer Email"
  ELSE IF IsBlankText(row.Candidate) THEN "Missing required field: Candidate"
  ELSE IF Trim(row.CandidateEmail) = <<>>
    THEN "Missing required field: Candidate Email"
  ELSE IF IsBlankText(row.AddedOn) THEN "Missing required field: Added On"
  ELSE Null

----------------------------------------------------------------------------
(* emailSender.ts (the middle part of src/src/index.ts) *)

\* The answers of the MailerSend API; 0 stands for fetch itself failing.
NotifierStatuses == {202, 429, 500, 0}

sendInvitationEmail(status) ==
  IF status = 202 \/ status = 200 THEN [success |-> TRUE, error |-> ""]
  ELSE IF status = 429 THEN [success |-> FALSE, error |-> "quota_exhausted"]
  ELSE IF status = 0
    THEN [success |-> FALSE, error |-> "Network error: socket hang up"]
  ELSE [success |-> FALSE, error |-> "MailerSend error (500): Server Error"]

----------------------------------------------------------------------------
(* airtableClient.ts *)

\* A stored record is [id, fields]; fields is a function on the names of the
\* fields the record has.  A write sends a function on the names it sets;
\* a field set to null is cleared.
HasField(fields, name) == name \in DOMAIN fields

DropNulls(fields) ==
  [f \in {g \in DOMAIN fields : g # "round_link" \/ fields[g] # Null} |-> fields[f]]

Patch(old, updates) ==
  DropNulls([f \in DOMAIN old \cup DOMAIN updates |->
               IF f \in DOMAIN updates THEN updates[f] ELSE old[f]])

\* ok: the API answered 2xx.  A refused write leaves the table as it was.
\* call tells which request was made, for the observation of the run.
createAirtableRecord(st, record, ok) ==
  IF ok
    THEN [threw |-> FALSE, call |-> [op |-> "create", id |-> 0],
          store |-> Append(st, [id |-> Len(st) + 1, fields |-> DropNulls(record)])]
    ELSE [threw |-> TRUE, call |-> [op |-> "create", id |-> 0], store |-> st]

updateAirtableRecord(st, recordId, updates, ok) ==
  IF ok
    THEN [threw |-> FALSE, call |-> [op |-> "update", id |-> recordId],
          store |-> [st EXCEPT ![recordId].fields = Patch(@, updates)]]
    ELSE [threw |-> TRUE, call |-> [op |-> "update", id |-> recordId],
          store |-> st]

Matching(st, idempotencyKey) ==
  {n \in 1..Len(st) : /\ HasField(st[n].fields, "idempotency_key")
                      /\ st[n].fields.idempotency_key = idempotencyKey}

Min(S) == CHOOSE n \in S : \A m \in S : n <= m

\* The answers of the list request: 200 with the matching records; 404 and
\* 422 "Unknown field name" while the table has no idempotency_key field, so
\* that no record carries a key; 500 and a failing fetch (0) at any time.
LookupStatuses(st) == {200, 500, 0} \cup (IF st = <<>> THEN {404, 422} ELSE {})

ErrorMessage(status) ==
  IF status = 422 THEN "Airtable API error (422): Unknown field name"
  ELSE IF status = 0 THEN "request failed"
  ELSE "Airtable API error (500)"

\* Fault injected: the list request without its filterByFormula
findRecordByIdempotencyKey_AnyRecord(st, idempotencyKey, status) ==
  IF status = 200 THEN
    IF st # <<>> THEN [threw |-> FALSE, record |-> 1]
    ELSE [threw |-> FALSE, record |-> 0]
  ELSE IF status = 404 THEN [threw |-> FALSE, record |-> 0]
  ELSE IF ErrorMessage(status) = "Airtable API error (422): Unknown field name"
    THEN [threw |-> FALSE, record |-> 0]
  ELSE [threw |-> TRUE, record |-> 0]

\* record is the id of data.records[0], 0 for null
findRecordByIdempotencyKey(st, idempotencyKey, status) ==
  IF status = 200 THEN
    IF Matching(st, idempotencyKey) # {}
      THEN [threw |-> FALSE, record |-> Min(Matching(st, idempotencyKey))]
      ELSE [threw |-> FALSE, record |-> 0]
  ELSE IF status = 404 THEN [threw |-> FALSE, record |-> 0]
  ELSE IF ErrorMessage(status) = "Airtable API error (422): Unknown field name"
    THEN [threw |-> FALSE, record |-> 0]
  ELSE [threw |-> TRUE, record |-> 0]

\* Fault injected: only a record that was sent counts as existing
isRecordProcessed_OnlySent(st, found) ==
  IF /\ found.record # 0
     /\ HasField(st[found.record].fields, "processed")
     /\ st[found.record].fields.processed = TRUE
     /\ HasField(st[found.record].fields, "mail_sent_at")
    THEN [exists |-> TRUE, recordId |-> found.record]
  ELSE [exists |-> FALSE, recordId |-> 0]

\* Fault injected: the id is returned only with a record that was sent
isRecordProcessed_NoIdForUnsent(st, found) ==
  IF /\ found.record # 0
     /\ HasField(st[found.record].fields, "processed")
     /\ st[found.record].fields.processed = TRUE
     /\ HasField(st[found.record].fields, "mail_sent_at")
    THEN [exists |-> TRUE, recordId |-> found.record]
  ELSE IF found.record # 0 THEN [exists |-> TRUE, recordId |-> 0]
  ELSE [exists |-> FALSE, recordId |-> 0]

\* recordId 0 stands for undefined
isRecordProcessed(st, found) ==
  IF /\ found.record # 0
     /\ HasField(st[found.record].fields, "processed")
     /\ st[found.record].fields.processed = TRUE
     /\ HasField(st[found.record].fields, "mail_sent_at")
    THEN [exists |-> TRUE, recordId |-> found.record]
  ELSE IF found.record # 0 THEN [exists |-> TRUE, recordId |-> found.record]
  ELSE [exists |-> FALSE, recordId |-> 0]

----------------------------------------------------------------------------
(* index.ts: the input *)

ValidEmail == <<"j", "@", "x", ".", "c">>
NotAnEmail == <<"j", "@", "x">>

TwoRounds == <<Line("Round", "1", TRUE, <<"https://calendly.com/a">>),
               Line("Round", "2", TRUE, <<"https://calendly.com/b">>)>>
OneRound == <<Line("R ", "1", TRUE, <<"https://zoom.example/j">>)>>
PoorRounds == <<Line("Round", "1", FALSE, <<>>),
                Line("r", "2", TRUE, <<"https://[bad">>)>>

AcmeRow == [Company |-> "Acme", Interviewer |-> "Ann",
            InterviewerEmail |-> "ann@acme.com", Candidate |-> "Jo",
            CandidateEmail |-> ValidEmail, SchedulingMethod |-> TwoRounds,
            AddedOn |-> "03 Nov 6:15"]

Rows == {AcmeRow,
         [AcmeRow EXCEPT !.SchedulingMethod = OneRound],
         [AcmeRow EXCEPT !.CandidateEmail = NotAnEmail],
         [AcmeRow EXCEPT !.SchedulingMethod = PoorRounds],
         [AcmeRow EXCEPT !.Company = ""],
         [AcmeRow EXCEPT !.AddedOn = "someday"],
         [AcmeRow EXCEPT !.SchedulingMethod = <<>>]}

Inputs == UNION {[1..n -> Rows] : n \in 1..MaxRows}

\* Rows that differ in the instant "Added On" reads as: before the process
\* starts, far ahead of it, and half a second after its start
DatedRows ==
  {[AcmeRow EXCEPT !.SchedulingMethod = OneRound, !.AddedOn = d] :
     d \in {"03 Nov 6:15", "2099-01-01 00:00", "today 00:00:00.5"}}

\* Files of rows with those dates, and every kind of row alone
DatedInputs ==
  UNION {[1..n -> DatedRows] : n \in 1..MaxRows} \cup {<<row>> : row \in Rows}

----------------------------------------------------------------------------
(* index.ts: processRecords *)

ZeroResult == [totalRecords |-> 0, emailsSent |-> 0, emailsFailed |-> 0,
               emailsSkipped |-> 0, emailsQueued |-> 0, averageTAT |-> 0]

NoUnit == [run |-> 0, row |-> 0, seq |-> 0, key |-> <<>>, record |-> 0,
           foundStatus |-> "none", pending |-> "none", forced |-> FALSE,
           afterQuota |-> FALSE, emailValid |-> FALSE, link |-> Null,
           outcome |-> "none", reason |-> "none", notified |-> FALSE,
           calls |-> <<>>, writeFailed |-> FALSE]

\* What is observed of a process: a store write was refused, the keys
\* computed as <<row, round name, key>>, and the turnaround times of the
\* rounds sent whose added-on instant is not after the send instant.
NewRun == [writeFailed |-> FALSE, keys |-> {}, pastTats |-> <<>>]

NoCall == [fn |-> "none"]

Init ==
  /\ csvData \in Inputs
  /\ FORCE_SEND = FALSE
  /\ store = <<>>
  /\ pc = "idle"
  /\ i = 0
  /\ r = 1
  /\ result = ZeroResult
  /\ tatValues = <<>>
  /\ quotaExhausted = FALSE
  /\ now = 0
  /\ runs = 0
  /\ faults = 0
  /\ notifierCalls = 0
  /\ quotaReturned = FALSE
  /\ lastUnit = NoUnit
  /\ prevRun = [ended |-> "none", writeFailed |-> FALSE, keys |-> {},
               file |-> <<>>]
  /\ thisRun = NewRun
  /\ createFailed = {}
  /\ call = NoCall
  /\ ret = <<>>

\* The step is answered n refusals (a status other than 2xx, a failing fetch)
Refused(n) == faults + n <= MaxFaults /\ faults' = faults + n

Count(refusal) == IF refusal THEN 1 ELSE 0

\* A read of the clock: time has stood still or moved one tick on
ClockRead(t) == {t2 \in {t, t + 1} : t2 <= MaxTicks}

Ms(t) == 500 * t

\* A process starts (main calls processRecords, index.ts:80) against the
\* table the earlier processes left.
StartRun ==
  /\ pc \in {"idle", "returned", "fatal"}
  /\ runs < MaxRuns
  /\ runs' = runs + 1
  /\ FORCE_SEND' \in BOOLEAN
  /\ pc' = "rows"
  /\ i' = 0
  /\ r' = 1
  /\ result' = ZeroResult
  /\ tatValues' = <<>>
  /\ quotaExhausted' = FALSE
  /\ now' \in ClockRead(now)
  /\ notifierCalls' = 0
  /\ quotaReturned' = FALSE
  /\ prevRun' = [ended |-> pc, writeFailed |-> thisRun.writeFailed,
                  keys |-> thisRun.keys, file |-> csvData]
  /\ thisRun' = NewRun
  /\ UNCHANGED <<call, ret, csvData, store, faults, lastUnit, createFailed>>

Row == csvData[i + 1]
AddedOnDate == parseAddedOnDate(Row.AddedOn)
Rounds == splitRounds(Row.SchedulingMethod)
Round == Rounds[r]
SourceId == createSourceIdentifier(Row, i)
IdempotencyKey ==
  generateIdempotencyKey(SourceId, Round.roundName, Join(Row.CandidateEmail))

\* index.ts:156-163 has run for the current round
KeyComputed == thisRun.keys \cup {<<i, Round.roundName, IdempotencyKey>>}

InLoop == pc = "rows" /\ i < Len(csvData)

RowSkipped ==
  validateCsvRow(Row) # Null \/ AddedOnDate = <<>> \/ Rounds = <<>>

AtRound == InLoop /\ ~RowSkipped

NextRow ==
  /\ i' = i + 1
  /\ r' = 1
  /\ UNCHANGED <<call, ret, csvData, FORCE_SEND, store, pc, result,
                 tatValues, quotaExhausted, now, runs, faults, notifierCalls,
                 quotaReturned, lastUnit, prevRun, thisRun, createFailed>>

\* index.ts:128-132
RowInvalid == InLoop /\ validateCsvRow(Row) # Null /\ NextRow

\* index.ts:135-139
RowUnparseable ==
  InLoop /\ validateCsvRow(Row) = Null /\ AddedOnDate = <<>> /\ NextRow

\* index.ts:142-147
RowNoRounds ==
  /\ InLoop /\ validateCsvRow(Row) = Null /\ AddedOnDate # <<>>
  /\ Rounds = <<>>
  /\ NextRow

----------------------------------------------------------------------------
(* index.ts: one pass of the loop over the rounds of a row *)

\* Fault injected: the record id is ignored and every write is a create
createOrUpdateRecord_AlwaysCreate(st, recordId, record, ok) ==
  LET w == createAirtableRecord(st, record, ok)
  IN [threw |-> FALSE, store |-> w.store, calls |-> <<w.call>>,
      failed |-> w.threw]

\* Fault injected: no try/catch around the write
createOrUpdateRecord_NoCatch(st, recordId, record, ok) ==
  LET w == IF recordId # 0
             THEN updateAirtableRecord(st, recordId, record, ok)
             ELSE createAirtableRecord(st, record, ok)
  IN [threw |-> w.threw, store |-> w.store, calls |-> <<w.call>>,
      failed |-> w.threw]

\* index.ts:374-384: the catch swallows the store's refusal.  failed is the
\* observation that the request made was refused.
createOrUpdateRecord(st, recordId, record, ok) ==
  LET w == IF recordId # 0
             THEN updateAirtableRecord(st, recordId, record, ok)
             ELSE createAirtableRecord(st, record, ok)
  IN [threw |-> FALSE, store |-> w.store, calls |-> <<w.call>>,
      failed |-> w.threw]

\* Fault injected: the "already processed" test is missing
ShortCircuit_Never(proc) == FALSE

\* Fault injected: the force flag is not consulted
ShortCircuit_IgnoresForce(proc) == proc.exists

\* index.ts:168
ShortCircuit(proc) == proc.exists /\ ~FORCE_SEND

\* Fault injected: the flag is not consulted before a send
BackpressureEngaged_Never == FALSE

\* index.ts:248
BackpressureEngaged == quotaExhausted

\* Fault injected: no failure is taken for the quota signal
QuotaSignal_Never(emailResult) == FALSE

\* Fault injected: every failure is taken for the quota signal
QuotaSignal_AnyFailure(emailResult) == ~emailResult.success

\* index.ts:323
QuotaSignal(emailResult) == emailResult.error = "quota_exhausted"

\* Fault injected: the flag is tested before the link
Decision_BackpressureFirst(proc) ==
  IF ShortCircuit(proc) THEN "already_processed"
  ELSE IF ~isValidEmail(Row.CandidateEmail) THEN "invalid_email"
  ELSE IF BackpressureEngaged THEN "queued"
  ELSE IF Round.roundLink # Null /\ Round.roundLink # "" THEN
    IF ~validateUrl(Round.roundLink).valid THEN "invalid_url" ELSE "send"
  ELSE "no_scheduling_link"

\* The branch a round takes, in the order of the tests of index.ts:168-269
Decision(proc) ==
  IF ShortCircuit(proc) THEN "already_processed"
  ELSE IF ~isValidEmail(Row.CandidateEmail) THEN "invalid_email"
  ELSE IF Round.roundLink # Null /\ Round.roundLink # "" THEN
    IF ~validateUrl(Round.roundLink).valid THEN "invalid_url"
    ELSE IF BackpressureEngaged THEN "queued"
    ELSE "send"
  ELSE "no_scheduling_link"

\* The fields every write carries (index.ts:178-186 and its copies)
BaseFields(roundLink) ==
  [company |-> Row.Company, interviewer |-> Row.Interviewer,
   interviewer_email |-> Row.InterviewerEmail, candidate |-> Row.Candidate,
   candidate_email |-> Join(Row.CandidateEmail),
   round_name |-> Round.roundName, round_link |-> roundLink,
   added_on_raw |-> Row.AddedOn, added_on_parsed |-> toISOString(AddedOnDate),
   idempotency_key |-> IdempotencyKey]

Outcome(status, reason) ==
  [mail_status |-> status, failure_reason |-> reason, processed |-> FALSE]

\* for (const round of rounds) ... i++
Continue ==
  IF r < Len(Rounds) THEN i' = i /\ r' = r + 1 ELSE i' = i + 1 /\ r' = 1

FoundStatus(found) ==
  IF found.record # 0 /\ HasField(store[found.record].fields, "mail_status")
    THEN store[found.record].fields.mail_status ELSE "none"

Pending(key) ==
  IF \E p \in createFailed : p[1] = key
    THEN (CHOOSE p \in createFailed : p[1] = key)[2] ELSE "none"

\* What the pass over the current round met and did: the record the lookup
\* returned, the status stored in it, the refused create pending for the key,
\* the flag and the quota history before the pass, the outcome, whether the
\* notifier was invoked, and the store requests made.
Observe(found, outcome, reason, notified, calls, failed) ==
  [run |-> runs, row |-> i, seq |-> result.totalRecords + 1,
   key |-> IdempotencyKey, record |-> found.record,
   foundStatus |-> FoundStatus(found), pending |-> Pending(IdempotencyKey),
   forced |-> FORCE_SEND, afterQuota |-> quotaReturned,
   emailValid |-> isValidEmail(Row.CandidateEmail), link |-> Round.roundLink,
   outcome |-> outcome, reason |-> reason, notified |-> notified,
   calls |-> calls, writeFailed |-> failed]

\* The rest of a pass that writes record and counts the round under counter:
\* await createOrUpdateRecord(...); result[counter]++; continue
WriteAndCount(found, proc, record, ok, counter, notified) ==
  LET w == createOrUpdateRecord(store, proc.recordId, record, ok)
      obs == Observe(found, record.mail_status,
                     IF HasField(record, "failure_reason")
                       THEN record.failure_reason ELSE "none",
                     notified, w.calls, w.failed)
      others == {p \in createFailed : p[1] # IdempotencyKey}
  IN /\ store' = w.store
     /\ lastUnit' = obs
     /\ thisRun' =
          [writeFailed |-> thisRun.writeFailed \/ w.failed,
           keys |-> KeyComputed,
           pastTats |->
             IF record.mail_status = "sent"
                  /\ record.added_on_parsed[2] <= record.mail_sent_at[2]
               THEN Append(thisRun.pastTats, record.tat_seconds)
               ELSE thisRun.pastTats]
     /\ createFailed' =
          IF w.failed /\ w.calls[1].op = "create"
            THEN others \cup {<<IdempotencyKey, record.mail_status>>}
            ELSE others
     /\ IF w.threw
          THEN /\ pc' = "fatal"
               /\ result' = [result EXCEPT !.totalRecords = @ + 1]
               /\ UNCHANGED <<i, r>>
          ELSE /\ pc' = pc
               /\ result' = [result EXCEPT !.totalRecords = @ + 1,
                                           ![counter] = @ + 1]
               /\ Continue

\* index.ts:166 throws: the rejection leaves processRecords and main's
\* catch (index.ts:403-406) ends the process.
LookupFails ==
  /\ AtRound
  /\ \E status \in LookupStatuses(store) :
       findRecordByIdempotencyKey(store, IdempotencyKey, status).threw
  /\ Refused(1)
  /\ pc' = "fatal"
  /\ result' = [result EXCEPT !.totalRecords = @ + 1]
  /\ thisRun' = [thisRun EXCEPT !.keys = KeyComputed]
  /\ UNCHANGED <<call, ret, csvData, FORCE_SEND, store, i, r, tatValues,
                 quotaExhausted, now, runs, notifierCalls, quotaReturned,
                 lastUnit, prevRun, createFailed>>

\* Fault injected: the short-circuit leaves out emailsSkipped++
RoundAlreadyProcessed_Uncounted ==
  /\ AtRound
  /\ \E status \in LookupStatuses(store) :
       LET found == findRecordByIdempotencyKey(store, IdempotencyKey, status)
           proc == isRecordProcessed(store, found)
       IN /\ ~found.threw
          /\ Decision(proc) = "already_processed"
          /\ Refused(Count(status # 200))
          /\ lastUnit' = Observe(found, "already_processed", "none", FALSE,
                                 <<>>, FALSE)
  /\ result' = [result EXCEPT !.totalRecords = @ + 1]
  /\ Continue
  /\ thisRun' = [thisRun EXCEPT !.keys = KeyComputed]
  /\ UNCHANGED <<call, ret, csvData, FORCE_SEND, store, pc, tatValues,
                 quotaExhausted, now, runs, notifierCalls, quotaReturned,
                 prevRun, createFailed>>

\* index.ts:168-172
RoundAlreadyProcessed ==
  /\ AtRound
  /\ \E status \in LookupStatuses(store) :
       LET found == findRecordByIdempotencyKey(store, IdempotencyKey, status)
           proc == isRecordProcessed(store, found)
       IN /\ ~found.threw
          /\ Decision(proc) = "already_processed"
          /\ Refused(Count(status # 200))
          /\ lastUnit' = Observe(found, "already_processed", "none", FALSE,
                                 <<>>, FALSE)
  /\ result' = [result EXCEPT !.totalRecords = @ + 1, !.emailsSkipped = @ + 1]
  /\ Continue
  /\ thisRun' = [thisRun EXCEPT !.keys = KeyComputed]
  /\ UNCHANGED <<call, ret, csvData, FORCE_SEND, store, pc, tatValues,
                 quotaExhausted, now, runs, notifierCalls, quotaReturned,
                 prevRun, createFailed>>

\* index.ts:175-194, 202-221, 226-245: the round is recorded as skipped
RoundSkipped(decision, roundLink) ==
  /\ AtRound
  /\ \E status \in LookupStatuses(store), ok \in BOOLEAN :
       LET found == findRecordByIdempotencyKey(store, IdempotencyKey, status)
           proc == isRecordProcessed(store, found)
       IN /\ ~found.threw
          /\ Decision(proc) = decision
          /\ Refused(Count(status # 200) + Count(~ok))
          /\ WriteAndCount(found, proc,
                           BaseFields(roundLink) @@ Outcome("skipped", decision),
                           ok, "emailsSkipped", FALSE)
  /\ UNCHANGED <<call, ret, csvData, FORCE_SEND, tatValues, quotaExhausted,
                 now, runs, notifierCalls, quotaReturned, prevRun>>

RoundInvalidEmail == RoundSkipped("invalid_email", Round.roundLink)

RoundInvalidUrl == RoundSkipped("invalid_url", Round.roundLink)

RoundNoLink == RoundSkipped("no_scheduling_link", Null)

\* index.ts:248-267
RoundQueued ==
  /\ AtRound
  /\ \E status \in LookupStatuses(store), ok \in BOOLEAN :
       LET found == findRecordByIdempotencyKey(store, IdempotencyKey, status)
           proc == isRecordProcessed(store, found)
       IN /\ ~found.threw
          /\ Decision(proc) = "queued"
          /\ Refused(Count(status # 200) + Count(~ok))
          /\ WriteAndCount(found, proc,
                           BaseFields(Round.roundLink)
                             @@ Outcome("queued", "quota_exhausted"),
                           ok, "emailsQueued", FALSE)
  /\ UNCHANGED <<call, ret, csvData, FORCE_SEND, tatValues, quotaExhausted,
                 now, runs, notifierCalls, quotaReturned, prevRun>>

\* index.ts:284-318: the record of a send that succeeded at mailSentAt, the
\* clock showing dateNow when isInFuture reads it
SentFields(mailSentAt, dateNow) ==
  LET tat == calculateTAT(mailSentAt, AddedOnDate)
      future == isInFuture(AddedOnDate, dateNow)
      finalTat == IF future THEN 0 ELSE tat
  IN BaseFields(Round.roundLink)
       @@ [mail_sent_at |-> toISOString(mailSentAt), mail_status |-> "sent",
           tat_seconds |-> finalTat, processed |-> TRUE]
       @@ (IF future THEN [failure_reason |-> "added_on_in_future"] ELSE <<>>)

\* index.ts:269-359
RoundSend ==
  /\ AtRound
  /\ \E status \in LookupStatuses(store), mail \in NotifierStatuses,
        ok \in BOOLEAN, t1 \in ClockRead(now) :
       LET found == findRecordByIdempotencyKey(store, IdempotencyKey, status)
           proc == isRecordProcessed(store, found)
           emailResult == sendInvitationEmail(mail)
           mailSentAt == <<Ms(t1)>>
       IN /\ ~found.threw
          /\ Decision(proc) = "send"
          /\ Refused(Count(status # 200) + Count(~emailResult.success)
                       + Count(~ok))
          /\ notifierCalls' = notifierCalls + 1
          /\ quotaReturned' = (quotaReturned \/ mail = 429)
          /\ IF emailResult.success THEN
               \E t2 \in ClockRead(t1) :
                 LET record == SentFields(mailSentAt, Ms(t2)) IN
                 /\ now' = t2
                 /\ tatValues' = Append(tatValues, record.tat_seconds)
                 /\ quotaExhausted' = quotaExhausted
                 /\ WriteAndCount(found, proc, record, ok, "emailsSent", TRUE)
             ELSE IF QuotaSignal(emailResult) THEN
               /\ now' = t1
               /\ tatValues' = tatValues
               /\ quotaExhausted' = TRUE
               /\ WriteAndCount(found, proc,
                                BaseFields(Round.roundLink)
                                  @@ Outcome("queued", "quota_exhausted"),
                                ok, "emailsQueued", TRUE)
             ELSE
               /\ now' = t1
               /\ tatValues' = tatValues
               /\ quotaExhausted' = quotaExhausted
               /\ WriteAndCount(found, proc,
                                BaseFields(Round.roundLink)
                                  @@ Outcome("failed", emailResult.error),
                                ok, "emailsFailed", TRUE)
  /\ UNCHANGED <<call, ret, csvData, FORCE_SEND, runs, prevRun>>

RECURSIVE Sum(_)
Sum(values) == IF values = <<>> THEN 0 ELSE Head(values) + Sum(Tail(values))

\* index.ts:363-368
ReturnSummary ==
  /\ pc = "rows"
  /\ i >= Len(csvData)
  /\ pc' = "returned"
  /\ result' = [result EXCEPT !.averageTAT =
                  IF Len(tatValues) > 0
                    THEN RoundDiv(Sum(tatValues), Len(tatValues)) ELSE @]
  /\ UNCHANGED <<call, ret, csvData, FORCE_SEND, store, i, r, tatValues,
                 quotaExhausted, now, runs, faults, notifierCalls,
                 quotaReturned, lastUnit, prevRun, thisRun, createFailed>>

Next ==
  \/ StartRun
  \/ RowInvalid
  \/ RowUnparseable
  \/ RowNoRounds
  \/ LookupFails
  \/ RoundAlreadyProcessed
  \/ RoundInvalidEmail
  \/ RoundInvalidUrl
  \/ RoundNoLink
  \/ RoundQueued
  \/ RoundSend
  \/ ReturnSummary

Spec == Init /\ [][Next]_vars

\* The same program over the dated files
InitDated ==
  /\ csvData \in DatedInputs
  /\ FORCE_SEND = FALSE
  /\ store = <<>>
  /\ pc = "idle"
  /\ i = 0
  /\ r = 1
  /\ result = ZeroResult
  /\ tatValues = <<>>
  /\ quotaExhausted = FALSE
  /\ now = 0
  /\ runs = 0
  /\ faults = 0
  /\ notifierCalls = 0
  /\ quotaReturned = FALSE
  /\ lastUnit = NoUnit
  /\ prevRun = [ended |-> "none", writeFailed |-> FALSE, keys |-> {},
               file |-> <<>>]
  /\ thisRun = NewRun
  /\ createFailed = {}
  /\ call = NoCall
  /\ ret = <<>>

SpecDated == InitDated /\ [][Next]_vars

----------------------------------------------------------------------------
(* index.ts: a process given an edited file *)

OneRoundRow == [AcmeRow EXCEPT !.SchedulingMethod = OneRound]
BoRow == [OneRoundRow EXCEPT !.Candidate = "Bo"]

\* A row whose e-mail is invalid and whose rounds have no usable link
NoAddressNoLinkRow ==
  [AcmeRow EXCEPT !.CandidateEmail = NotAnEmail, !.SchedulingMethod = PoorRounds]

\* Two rows whose texts hold the separators of the key: the e-mail of the
\* first reads "q_j@x.c_03 Nov 6:15_1|Round 1|j@x.c"
BarEmail == <<"q_j", "@", "x", ".", "c_03", " ", "Nov", " ", "6:15_1|Round",
              " ", "1|j", "@", "x", ".", "c">>
BarCandidate == "Jo_" \o Join(BarEmail) \o "_03 Nov 6:15_0|Round 1|q"
BarEmailRow == [OneRoundRow EXCEPT !.CandidateEmail = BarEmail]
BarCandidateRow == [OneRoundRow EXCEPT !.Candidate = BarCandidate]

\* The files of the first process: every kind of row alone, and pairs
FirstInputs ==
  {<<row>> : row \in Rows}
    \cup {<<OneRoundRow, NoAddressNoLinkRow>>,
          <<OneRoundRow, [AcmeRow EXCEPT !.SchedulingMethod = PoorRounds]>>,
          <<BarEmailRow, BarCandidateRow>>,
          <<OneRoundRow, OneRoundRow>>,
          <<OneRoundRow, BoRow>>}

\* The file with its first row removed, or with a row put in front of it
EditedFiles(file) ==
  (IF Len(file) > 1 THEN {Tail(file)} ELSE {})
    \cup (IF Len(file) < MaxRows THEN {<<BoRow>> \o file} ELSE {})

InitEdited ==
  /\ csvData \in FirstInputs
  /\ FORCE_SEND = FALSE
  /\ store = <<>>
  /\ pc = "idle"
  /\ i = 0
  /\ r = 1
  /\ result = ZeroResult
  /\ tatValues = <<>>
  /\ quotaExhausted = FALSE
  /\ now = 0
  /\ runs = 0
  /\ faults = 0
  /\ notifierCalls = 0
  /\ quotaReturned = FALSE
  /\ lastUnit = NoUnit
  /\ prevRun = [ended |-> "none", writeFailed |-> FALSE, keys |-> {},
               file |-> <<>>]
  /\ thisRun = NewRun
  /\ createFailed = {}
  /\ call = NoCall
  /\ ret = <<>>

\* A later process is started on the file after an edit (main reads the
\* file anew, index.ts:70-72, and calls processRecords, index.ts:80)
StartRunOnEditedFile ==
  /\ pc \in {"returned", "fatal"}
  /\ runs < MaxRuns
  /\ csvData' \in EditedFiles(csvData)
  /\ runs' = runs + 1
  /\ FORCE_SEND' \in BOOLEAN
  /\ pc' = "rows"
  /\ i' = 0
  /\ r' = 1
  /\ result' = ZeroResult
  /\ tatValues' = <<>>
  /\ quotaExhausted' = FALSE
  /\ now' \in ClockRead(now)
  /\ notifierCalls' = 0
  /\ quotaReturned' = FALSE
  /\ prevRun' = [ended |-> pc, writeFailed |-> thisRun.writeFailed,
                  keys |-> thisRun.keys, file |-> csvData]
  /\ thisRun' = NewRun
  /\ UNCHANGED <<call, ret, store, faults, lastUnit, createFailed>>

NextEdited ==
  \/ Next
  \/ StartRunOnEditedFile

SpecEdited == InitEdited /\ [][NextEdited]_vars

----------------------------------------------------------------------------
(* The helpers called on their own *)

\* Instants in ms: around the half second, where Math.round turns, and an
\* hour, a minute and a second apart
TatInstants == {0, 1, 499, 500, 501, 1000, 1500, 3661000, 3661499, 3661500}

\* The lines a scheduling text is made of: labelled rounds, a second line
\* for round 1, a short label, a label without a link, a bare link, a note
\* starting with "r" and a sentence holding a link
TextLines ==
  {Line("Round ", "1", TRUE, <<"https://calendly.com/a">>),
   Line("Round ", "2", TRUE, <<"https://calendly.com/b">>),
   Line("Round ", "3", TRUE, <<"https:cal.com/c">>),
   Line("Round ", "1", TRUE, <<"https://zoom.example/j">>),
   Line("R", "2", TRUE, <<"https://[bad">>),
   Line("Round", "2", FALSE, <<>>),
   Line("", "", FALSE, <<"https://zoom.example/j">>),
   Line("", "", FALSE, <<"reschedule">>),
   Line("", "", FALSE, <<"join", "https://calendly.com/a">>)}

\* Texts of up to MaxLines non-blank lines, and the blank text
Texts == UNION {[1..n -> TextLines] : n \in 0..MaxLines}

\* The words of the command line
ArgWords == {"--csv", "data.csv", "--use-airtable"}

CommandLines == UNION {[1..n -> ArgWords] : n \in 0..MaxArgs}

\* index.ts:39-46: the loop over args from position n (1-based)
RECURSIVE parseArgs(_, _, _, _)
parseArgs(args, n, csvFilePath, useAirtable) ==
  IF n > Len(args) THEN [csvFilePath |-> csvFilePath, useAirtable |-> useAirtable]
  ELSE IF args[n] = "--csv" /\ n + 1 <= Len(args)
    THEN parseArgs(args, n + 2, args[n + 1], useAirtable)
  ELSE IF args[n] = "--use-airtable"
    THEN parseArgs(args, n + 1, csvFilePath, TRUE)
  ELSE parseArgs(args, n + 1, csvFilePath, useAirtable)

\* index.ts:31-86 up to the call of processRecords.  environment: the four
\* variables are set; fields: ensureRequiredFields resolves; file: the CSV
\* file is read and parsed.  A rejection of parseCsvFile reaches the catch
\* of index.ts:403-406.
main(args, environment, fields, file) ==
  LET parsed == parseArgs(args, 1, Null, FALSE) IN
  IF parsed.csvFilePath = Null /\ ~parsed.useAirtable
    THEN [exit |-> 1, error |-> "usage", processes |-> FALSE]
  ELSE IF ~environment
    THEN [exit |-> 1, error |-> "environment", processes |-> FALSE]
  ELSE IF ~fields
    THEN [exit |-> 1, error |-> "fields", processes |-> FALSE]
  ELSE IF parsed.csvFilePath # Null THEN
    IF file THEN [exit |-> 0, error |-> "none", processes |-> TRUE]
    ELSE [exit |-> 1, error |-> "fatal", processes |-> FALSE]
  ELSE [exit |-> 1, error |-> "not implemented", processes |-> FALSE]

FnCalls ==
  {[fn |-> "calculateTAT", mailSentAt |-> <<t1>>, addedOn |-> <<t2>>] :
     t1 \in TatInstants, t2 \in TatInstants}
  \cup {[fn |-> "splitRounds", schedulingMethod |-> text] : text \in Texts}
  \cup {[fn |-> "main", args |-> args, environment |-> e, fields |-> f,
          file |-> c] :
          args \in CommandLines, e \in BOOLEAN, f \in BOOLEAN, c \in BOOLEAN}

InitFn ==
  /\ call \in FnCalls
  /\ ret = <<>>
  /\ csvData = <<>>
  /\ FORCE_SEND = FALSE
  /\ store = <<>>
  /\ pc = "idle"
  /\ i = 0
  /\ r = 1
  /\ result = ZeroResult
  /\ tatValues = <<>>
  /\ quotaExhausted = FALSE
  /\ now = 0
  /\ runs = 0
  /\ faults = 0
  /\ notifierCalls = 0
  /\ quotaReturned = FALSE
  /\ lastUnit = NoUnit
  /\ prevRun = [ended |-> "none", writeFailed |-> FALSE, keys |-> {},
               file |-> <<>>]
  /\ thisRun = NewRun
  /\ createFailed = {}

Returns(value) ==
  /\ ret = <<>>
  /\ ret' = <<value>>
  /\ UNCHANGED <<call, csvData, FORCE_SEND, store, pc, i, r, result,
                 tatValues, quotaExhausted, now, runs, faults, notifierCalls,
                 quotaReturned, lastUnit, prevRun, thisRun, createFailed>>

CallCalculateTAT ==
  /\ call.fn = "calculateTAT"
  /\ Returns(calculateTAT(call.mailSentAt, call.addedOn))

CallSplitRounds ==
  /\ call.fn = "splitRounds"
  /\ Returns(splitRounds(call.schedulingMethod))

\* exit 0 stands for main going on to processRecords
CallMain ==
  /\ call.fn = "main"
  /\ Returns(main(call.args, call.environment, call.fields, call.file))

NextFn ==
  \/ CallCalculateTAT
  \/ CallSplitRounds
  \/ CallMain

SpecFn == InitFn /\ [][NextFn]_vars

----------------------------------------------------------------------------
(* Properties *)

UnitOfThisRun == lastUnit.run = runs /\ runs > 0

\* A pass over a round has just ended
UnitStep == lastUnit' # lastUnit

PrevRunPersisted == prevRun.ended = "returned" /\ ~prevRun.writeFailed

\* C1 as stated: after a run that has completed, a run over the same input
\* without the force flag never invokes the notifier.
C1_RerunSendsNothing ==
  (pc # "idle" /\ prevRun.ended = "returned" /\ ~FORCE_SEND)
    => notifierCalls = 0

\* C1, amended: after a run that has completed and whose store writes were
\* all accepted, a run over the same input without the force flag never
\* invokes the notifier, and every round it passes over resolves to
\* "already processed".
C1_RerunOfPersistedRunSendsNothing ==
  (pc # "idle" /\ PrevRunPersisted /\ ~FORCE_SEND)
    => /\ notifierCalls = 0
       /\ UnitOfThisRun => lastUnit.outcome = "already_processed"

C1_Witness ==
  /\ runs = 2 /\ pc = "returned" /\ PrevRunPersisted /\ ~FORCE_SEND
  /\ UnitOfThisRun
  /\ lastUnit.foundStatus = "sent" /\ lastUnit.outcome = "already_processed"

\* C2: within a run, once a notifier invocation has returned the
\* quota-exceeded failure, the notifier is not invoked again.
C2_NoSendAfterQuota ==
  [][(quotaReturned /\ runs' = runs) => notifierCalls' = notifierCalls]_vars

C2_Witness ==
  /\ UnitOfThisRun /\ lastUnit.afterQuota /\ lastUnit.row = 1
  /\ lastUnit.outcome = "queued" /\ ~lastUnit.notified
  /\ notifierCalls = 1

\* C3 as stated: within a run, every round after a quota-exceeded failure is
\* recorded queued with reason quota_exhausted.
C3_AllLaterUnitsQueued ==
  (UnitOfThisRun /\ lastUnit.afterQuota)
    => lastUnit.outcome = "queued" /\ lastUnit.reason = "quota_exhausted"

\* The round reaches the backpressure test: it is not short-circuited and
\* its e-mail and its link pass the validations.
ReachesBackpressureTest(unit) ==
  /\ unit.record = 0 \/ unit.forced
  /\ unit.emailValid
  /\ validateUrl(unit.link).valid

\* C3, amended: within a run, every round after a quota-exceeded failure
\* that is not already processed and has a valid e-mail and a valid link is
\* recorded queued with reason quota_exhausted, without a send.
C3_LaterSendableUnitsQueued ==
  (UnitOfThisRun /\ lastUnit.afterQuota /\ ReachesBackpressureTest(lastUnit))
    => /\ lastUnit.outcome = "queued"
       /\ lastUnit.reason = "quota_exhausted"
       /\ ~lastUnit.notified
       /\ Len(lastUnit.calls) = 1

C3_Witness ==
  /\ UnitOfThisRun /\ lastUnit.afterQuota /\ ReachesBackpressureTest(lastUnit)
  /\ lastUnit.row = 1 /\ lastUnit.outcome = "queued"
  /\ ~lastUnit.writeFailed
  /\ store[Len(store)].fields.mail_status = "queued"
  /\ store[Len(store)].fields.idempotency_key = lastUnit.key

\* C4: the backpressure flag is set exactly when a notifier invocation of
\* the run has returned the quota-exceeded failure, and within a run it is
\* never cleared once set.
C4_FlagIffQuotaReturned ==
  /\ [](quotaExhausted <=> quotaReturned)
  /\ [][(quotaExhausted /\ runs' = runs) => quotaExhausted']_vars

C4_Witness ==
  /\ pc = "returned" /\ quotaExhausted
  /\ result.emailsFailed = 1 /\ result.emailsQueued >= 1

\* C5: a round that is not short-circuited issues exactly one store write:
\* an update of the record the lookup returned, else a create.
C5_OneWritePerUnit ==
  (lastUnit.seq > 0 /\ lastUnit.outcome # "already_processed")
    => /\ Len(lastUnit.calls) = 1
       /\ lastUnit.calls[1] =
            IF lastUnit.record # 0
              THEN [op |-> "update", id |-> lastUnit.record]
              ELSE [op |-> "create", id |-> 0]

C5_Witness ==
  /\ lastUnit.record # 0 /\ lastUnit.outcome = "sent"
  /\ lastUnit.calls = <<[op |-> "update", id |-> lastUnit.record]>>

C7_QueuedUnitRetried ==
  (UnitOfThisRun /\ lastUnit.foundStatus = "queued" /\ ~lastUnit.forced
     /\ ~lastUnit.afterQuota)
    => lastUnit.notified

Counted(res, outcome) ==
  LET counter == CASE outcome = "sent" -> "emailsSent"
                   [] outcome = "failed" -> "emailsFailed"
                   [] outcome = "queued" -> "emailsQueued"
                   [] OTHER -> "emailsSkipped"
  IN [res EXCEPT !.totalRecords = @ + 1, ![counter] = @ + 1]

\* C8: a refused store write does not end the run and leaves the counters
\* as decided: the round is counted under its outcome and the loop moves on.
C8_RefusedWriteIsSwallowed ==
  [][(UnitStep /\ lastUnit'.writeFailed)
       => /\ pc' = "rows"
          /\ result' = Counted(result, lastUnit'.outcome)
          /\ <<i', r'>> # <<i, r>>]_vars

C8_Witness ==
  /\ UnitOfThisRun /\ pc = "returned"
  /\ lastUnit.writeFailed /\ lastUnit.outcome = "sent"
  /\ result.emailsSent = result.totalRecords

\* C9: a key whose create was refused has no record in the table, and the
\* next pass over that round is not short-circuited.
C9_RefusedCreateIsReevaluated ==
  /\ \A p \in createFailed : Matching(store, p[1]) = {}
  /\ lastUnit.pending # "none" => lastUnit.outcome # "already_processed"

C9_Witness ==
  /\ UnitOfThisRun /\ runs = 2 /\ ~FORCE_SEND
  /\ lastUnit.pending = "sent" /\ lastUnit.outcome = "sent"

\* C10: processRecords never ends in a fatal error, whatever fails.
C10_NeverFatal == pc # "fatal"

\* The records of the table that hold a send
SentRecords ==
  {n \in 1..Len(store) : /\ HasField(store[n].fields, "mail_status")
                         /\ store[n].fields.mail_status = "sent"}

\* The added-on instant of the record is strictly after its send instant
AddedAfterSend(fields) == fields.added_on_parsed[2] > fields.mail_sent_at[2]

\* C11: every record of a send whose added-on instant is strictly after the
\* send instant has status sent, turnaround time 0 and failure reason
\* added_on_in_future.
C11_FutureSendMarked ==
  \A n \in SentRecords :
    AddedAfterSend(store[n].fields)
      => /\ store[n].fields.tat_seconds = 0
         /\ HasField(store[n].fields, "failure_reason")
         /\ store[n].fields.failure_reason = "added_on_in_future"

\* C12: the averageTAT of the summary is the (rounded) mean of the turnaround
\* times of the rounds this run sent whose added-on instant is not after the
\* send instant, and 0 when there is none; the other sent rounds do not
\* enter it.
C12_AverageOverPastSent ==
  pc = "returned"
    => result.averageTAT =
         IF thisRun.pastTats = <<>> THEN 0
         ELSE RoundDiv(Sum(thisRun.pastTats), Len(thisRun.pastTats))

\* The round belongs to a row whose candidate e-mail is the address without
\* a dot after the "@"
HasInvalidEmail(unit) == csvData[unit.row + 1].CandidateEmail = NotAnEmail

\* The pass was not short-circuited as already processed
NotShortCircuited(unit) == unit.record = 0 \/ unit.forced

\* C13: a round of a row with a syntactically invalid candidate e-mail that
\* is not already processed invokes no notifier and issues exactly one write,
\* of status skipped, reason invalid_email and processed = FALSE; once the
\* store has accepted it the table holds exactly one such record under the
\* round's key, so n rounds leave n records.
C13_InvalidEmailSkipped ==
  (lastUnit.seq > 0 /\ HasInvalidEmail(lastUnit) /\ NotShortCircuited(lastUnit))
    => /\ ~lastUnit.notified
       /\ Len(lastUnit.calls) = 1
       /\ lastUnit.outcome = "skipped" /\ lastUnit.reason = "invalid_email"
       /\ ~lastUnit.writeFailed =>
            /\ Cardinality(Matching(store, lastUnit.key)) = 1
            /\ \A n \in Matching(store, lastUnit.key) :
                 /\ store[n].fields.mail_status = "skipped"
                 /\ store[n].fields.failure_reason = "invalid_email"
                 /\ store[n].fields.processed = FALSE

C13_Witness ==
  /\ runs = 1 /\ pc = "returned" /\ Len(csvData) = 1
  /\ HasInvalidEmail(lastUnit) /\ lastUnit.seq = 2
  /\ notifierCalls = 0 /\ result.emailsSkipped = 2
  /\ Len(store) = 2
  /\ \A n \in 1..2 : /\ store[n].fields.mail_status = "skipped"
                      /\ store[n].fields.failure_reason = "invalid_email"
                      /\ store[n].fields.processed = FALSE
  /\ store[1].fields.idempotency_key # store[2].fields.idempotency_key

\* The rows of the model that lack a required field, whose date chrono
\* cannot read, or whose scheduling text is blank
Abandoned(row) ==
  \/ row.Company = ""
  \/ row.AddedOn = "someday"
  \/ row.SchedulingMethod = <<>>

\* C14: a row with a missing required field, an unparseable added-on date or
\* no round is abandoned: the step that passes over it makes no lookup (each
\* lookup follows a totalRecords++), no notifier call and no write, changes
\* no counter, and moves to the next row.
C14_InvalidRowAbandoned ==
  [][(pc = "rows" /\ i < Len(csvData) /\ Abandoned(csvData[i + 1]))
       => /\ i' = i + 1 /\ r' = 1 /\ pc' = "rows"
          /\ result' = result
          /\ store' = store
          /\ notifierCalls' = notifierCalls
          /\ faults' = faults
          /\ lastUnit' = lastUnit
          /\ tatValues' = tatValues /\ quotaExhausted' = quotaExhausted]_vars

C14_Witness ==
  /\ runs = 1 /\ pc = "returned" /\ Len(csvData) = 2 /\ i = 2
  /\ Abandoned(csvData[1]) /\ ~Abandoned(csvData[2])
  /\ csvData[1].AddedOn = "someday"
  /\ lastUnit.row = 1 /\ lastUnit.seq = result.totalRecords
  /\ \A k \in thisRun.keys : k[1] = 1
  /\ Len(store) = 2 /\ result.emailsSent = 2

LabelledValid(row) ==
  /\ ~Abandoned(row)
  /\ row.CandidateEmail = ValidEmail
  /\ row.SchedulingMethod \in {TwoRounds, OneRound}

KeysOfRow(n) == {k[3] : k \in {q \in thisRun.keys : q[1] = n - 1}}

C17_ForcedUnitUpdatesRecord ==
  [][(UnitStep /\ lastUnit'.forced /\ lastUnit'.record # 0)
       => /\ lastUnit'.outcome \in {"sent", "queued", "failed", "skipped"}
          /\ (ReachesBackpressureTest(lastUnit') /\ ~lastUnit'.afterQuota)
               => lastUnit'.notified
          /\ lastUnit'.calls = <<[op |-> "update", id |-> lastUnit'.record]>>
          /\ Len(store') = Len(store)
          /\ ~lastUnit'.writeFailed
               => store'[lastUnit'.record].fields.mail_status
                    = lastUnit'.outcome]_vars

C17_Witness ==
  /\ runs = 2 /\ FORCE_SEND /\ pc = "returned" /\ Len(csvData) = 1
  /\ UnitOfThisRun /\ lastUnit.forced /\ lastUnit.record = 1
  /\ lastUnit.foundStatus = "sent" /\ lastUnit.outcome = "failed"
  /\ lastUnit.notified /\ ~lastUnit.writeFailed
  /\ Len(store) = 1 /\ store[1].fields.mail_status = "failed"

\* calculateTAT has returned
TatReturned == call.fn = "calculateTAT" /\ ret # <<>>

\* sentAt - addedOn of the call, in ms
DiffMs == call.mailSentAt[1] - call.addedOn[1]

\* The value returned is the whole number of seconds nearest to the
\* difference, a half rounding up as Math.round does
NearestSecond == -500 <= DiffMs - 1000 * ret[1] /\ DiffMs - 1000 * ret[1] < 500

\* C18 as stated: calculateTAT returns the difference in whole seconds,
\* rounded to the nearest integer, 3661 for 3661 s, and a negative integer
\* whenever sentAt is before addedOn.
C18_NegativeWheneverBefore ==
  TatReturned
    => /\ NearestSecond
       /\ DiffMs = 3661000 => ret[1] = 3661
       /\ DiffMs < 0 => ret[1] < 0

\* C18, amended: calculateTAT returns the difference in whole seconds,
\* rounded to the nearest integer and not clamped: 3661 for 3661 s, a
\* negative integer whenever sentAt is more than 500 ms before addedOn, and
\* 0 when it is before addedOn by 500 ms or less.
C18_NegativeBeyondHalfSecond ==
  TatReturned
    => /\ NearestSecond
       /\ DiffMs = 3661000 => ret[1] = 3661
       /\ DiffMs < -500 => ret[1] < 0
       /\ (-500 <= DiffMs /\ DiffMs < 0) => ret[1] = 0

C18_Witness ==
  /\ TatReturned
  /\ call.mailSentAt = <<0>> /\ call.addedOn = <<3661000>>
  /\ ret = <<-3661>>

\* splitRounds has returned
SplitReturned == call.fn = "splitRounds" /\ ret # <<>>

\* A line of the form "Round N: <url>"
IsRoundLine(line) ==
  /\ line.label = "Round " /\ line.digits # "" /\ line.colon
  /\ Len(line.rest) = 1 /\ line.rest[1] \in LinkWords

RoundLines(text) == {k \in 1..Len(text) : IsRoundLine(text[k])}

DistinctNumbers(text) ==
  \A a, b \in RoundLines(text) : a # b => text[a].digits # text[b].digits

\* The result is the rounds of the "Round N: <url>" lines of the text, one
\* unit for each, in the order of the lines
UnitsOfRoundLines(text, rounds) ==
  /\ Len(rounds) = Cardinality(RoundLines(text))
  /\ \A k \in RoundLines(text) :
       rounds[Cardinality({j \in RoundLines(text) : j <= k})]
         = [roundName |-> "Round " \o text[k].digits,
            roundLink |-> text[k].rest[1]]

\* C19 as stated: for a non-blank text containing k >= 1 lines
\* "Round N: <url>" with distinct N, splitRounds returns exactly k units,
\* the i-th with the name and the link of the i-th such line.
C19_UnitsOfContainedRoundLines ==
  (SplitReturned /\ RoundLines(call.schedulingMethod) # {}
     /\ DistinctNumbers(call.schedulingMethod))
    => UnitsOfRoundLines(call.schedulingMethod, ret[1])

\* C19, amended: for a text whose non-blank lines are k >= 1 lines
\* "Round N: <url>" with distinct N and nothing else, splitRounds returns
\* exactly k units, the i-th with the name and the link of the i-th line.
C19_UnitsOfTextOfRoundLines ==
  (SplitReturned /\ call.schedulingMethod # <<>>
     /\ RoundLines(call.schedulingMethod) = DOMAIN call.schedulingMethod
     /\ DistinctNumbers(call.schedulingMethod))
    => UnitsOfRoundLines(call.schedulingMethod, ret[1])

C19_Witness ==
  /\ SplitReturned
  /\ call.schedulingMethod =
       <<Line("Round ", "2", TRUE, <<"https://calendly.com/b">>),
         Line("Round ", "3", TRUE, <<"https:cal.com/c">>),
         Line("Round ", "1", TRUE, <<"https://zoom.example/j">>)>>
  /\ ret[1] = <<[roundName |-> "Round 2", roundLink |-> "https://calendly.com/b"],
                [roundName |-> "Round 3", roundLink |-> "https:cal.com/c"],
                [roundName |-> "Round 1", roundLink |-> "https://zoom.example/j"]>>

\* The line carries a round label, with or without a link after it
Labelled(line) == line.label \in RoundLabels /\ line.digits # ""

LabelName(line) == "Round " \o line.digits

\* The link after the label; null when the line stops at the label
LabelLink(line) ==
  IF line.colon /\ line.rest # <<>> THEN extractUrl(line.rest) ELSE Null

DistinctNames(rounds) ==
  \A a, b \in 1..Len(rounds) : a # b => rounds[a].roundName # rounds[b].roundName

FirstOf(S) == CHOOSE k \in S : \A j \in S : k <= j

\* C20 as stated: the names of the result are pairwise distinct; the lines
\* whose labels normalize to one name are one unit of the result, and it
\* carries the link, or the null link, of the first of them.
C20_FirstLabelledLineWins ==
  SplitReturned
    => LET text == call.schedulingMethod
           WithLabel(name) ==
             {k \in 1..Len(text) : Labelled(text[k]) /\ LabelName(text[k]) = name}
       IN /\ DistinctNames(ret[1])
          /\ \A k \in 1..Len(text) :
               Labelled(text[k])
                 => \E p \in 1..Len(ret[1]) :
                      ret[1][p].roundName = LabelName(text[k])
          /\ \A p \in 1..Len(ret[1]) :
               WithLabel(ret[1][p].roundName) # {}
                 => ret[1][p].roundLink
                      = LabelLink(text[FirstOf(WithLabel(ret[1][p].roundName))])

\* The name line k of the text stands for when the loop reaches it: the
\* name of its label, or for a line that is only a link "Round <n + 1>"
\* after n units; "" for any other line
YieldedName(text, k) ==
  IF Labelled(text[k]) THEN LabelName(text[k])
  ELSE IF isUrl(LineWords(text[k]))
    THEN "Round " \o IndexText(Len(splitLines(<<>>, SubSeq(text, 1, k - 1))) + 1)
  ELSE ""

YieldedLink(line) == IF Labelled(line) THEN LabelLink(line) ELSE line.rest[1]

\* C20, amended: the names of the result are pairwise distinct; the lines
\* that stand for one name, by their label or as a bare link given the next
\* free number, are one unit of the result, and it carries the link, or the
\* null link, of the first of them.
C20_FirstYieldingLineWins ==
  SplitReturned
    => LET text == call.schedulingMethod
           Yielding(name) ==
             {k \in 1..Len(text) : YieldedName(text, k) = name}
       IN /\ DistinctNames(ret[1])
          /\ \A k \in 1..Len(text) :
               YieldedName(text, k) # ""
                 => \E p \in 1..Len(ret[1]) :
                      ret[1][p].roundName = YieldedName(text, k)
          /\ \A p \in 1..Len(ret[1]) :
               Yielding(ret[1][p].roundName) # {}
                 => ret[1][p].roundLink
                      = YieldedLink(text[FirstOf(Yielding(ret[1][p].roundName))])

C20_Witness ==
  /\ SplitReturned
  /\ call.schedulingMethod =
       <<Line("Round", "2", FALSE, <<>>),
         Line("Round ", "2", TRUE, <<"https://calendly.com/b">>),
         Line("R", "2", TRUE, <<"https://[bad">>)>>
  /\ ret[1] = <<[roundName |-> "Round 2", roundLink |-> Null]>>

\* No line of the text carries a round label or is a link on its own
NoRoundStructure(text) == \A k \in 1..Len(text) : YieldedName(text, k) = ""

\* The first "http(s)://" link among the words of the text, else null
FirstLinkOf(text) ==
  LET words == AllWords(text)
      links == {k \in 1..Len(words) : HttpPart(words[k]) # Null}
  IN IF links = {} THEN Null ELSE words[FirstOf(links)]

\* C21: splitRounds returns the empty list exactly for the blank text; a
\* non-blank text without any round structure gives exactly one unit, named
\* "Round 1", whose link is the first link found in the text, or null.
C21_EmptyOnlyForBlankText ==
  SplitReturned
    => /\ ret[1] = <<>> <=> call.schedulingMethod = <<>>
       /\ (call.schedulingMethod # <<>> /\ NoRoundStructure(call.schedulingMethod))
            => ret[1] = <<[roundName |-> "Round 1",
                           roundLink |-> FirstLinkOf(call.schedulingMethod)]>>

C21_Witness ==
  /\ SplitReturned
  /\ call.schedulingMethod =
       <<Line("", "", FALSE, <<"reschedule">>),
         Line("", "", FALSE, <<"join", "https://calendly.com/a">>)>>
  /\ ret[1] = <<[roundName |-> "Round 1", roundLink |-> "https://calendly.com/a"]>>

\* A line that is nothing but an http(s) link
IsBareLink(line) ==
  line.label = "" /\ line.digits = "" /\ ~line.colon /\ isUrl(line.rest)

\* The units accumulated when the loop reaches line k
UnitsBefore(text, k) == splitLines(<<>>, SubSeq(text, 1, k - 1))

InferredName(text, k) == "Round " \o IndexText(Len(UnitsBefore(text, k)) + 1)

WithoutLine(text, k) == SubSeq(text, 1, k - 1) \o SubSeq(text, k + 1, Len(text))

\* C24: a line that is a bare http(s) link is named "Round <k+1>" after k
\* units: when that name is free the result holds, at position k+1, the unit
\* of that name with the line as its link; when the name is taken the line
\* gives no unit, the result being that of the text without the line. The
\* text of one bare link gives the one unit "Round 1" with that link.
C24_BareLinkGetsNextNumber ==
  SplitReturned
    => LET text == call.schedulingMethod IN
       /\ \A k \in 1..Len(text) :
            IsBareLink(text[k])
              => LET before == UnitsBefore(text, k)
                     name == InferredName(text, k)
                 IN IF name \notin Names(before)
                      THEN /\ Len(ret[1]) >= Len(before) + 1
                           /\ SubSeq(ret[1], 1, Len(before)) = before
                           /\ ret[1][Len(before) + 1]
                                = [roundName |-> name,
                                   roundLink |-> text[k].rest[1]]
                      ELSE /\ ret[1] = splitRounds(WithoutLine(text, k))
                           /\ SubSeq(ret[1], 1, Len(before)) = before
       /\ (Len(text) = 1 /\ IsBareLink(text[1]))
            => ret[1] = <<[roundName |-> "Round 1",
                           roundLink |-> text[1].rest[1]]>>

\* After the one unit "Round 2" a bare link would be "Round 2" again and
\* is dropped
C24_Witness ==
  /\ SplitReturned
  /\ call.schedulingMethod =
       <<Line("Round", "2", FALSE, <<>>),
         Line("", "", FALSE, <<"https://zoom.example/j">>),
         Line("Round ", "1", TRUE, <<"https://calendly.com/a">>)>>
  /\ ret[1] = <<[roundName |-> "Round 2", roundLink |-> Null],
                [roundName |-> "Round 1", roundLink |-> "https://calendly.com/a"]>>

\* main has returned or exited
MainReturned == call.fn = "main" /\ ret # <<>>

\* --use-airtable is on the command line as a flag, not as the path that
\* follows --csv
UseAirtableGiven == parseArgs(call.args, 1, Null, FALSE).useAirtable

\* C22: whenever --use-airtable is on the command line, main exits with a
\* non-zero status before processRecords is called, whatever else is given.
C22_UseAirtableFailsFast ==
  (MainReturned /\ UseAirtableGiven)
    => ret[1].exit = 1 /\ ~ret[1].processes

\* C25: between two rounds and in the summary returned, every round seen
\* is counted under exactly one outcome:
\* totalRecords = emailsSent + emailsFailed + emailsSkipped + emailsQueued.
C25_CountersAddUp ==
  pc # "fatal"
    => result.totalRecords
         = result.emailsSent + result.emailsFailed + result.emailsSkipped
             + result.emailsQueued

C25_Witness ==
  /\ runs = 1 /\ pc = "returned"
  /\ result.totalRecords = 4
  /\ result.emailsSent = 1 /\ result.emailsQueued = 1
  /\ result.emailsSkipped = 2 /\ result.emailsFailed = 0

\* C26: in a run the notifier has been invoked emailsSent + emailsFailed
\* times, and once more when the backpressure flag is set: one invocation at
\* most returned the quota failure, and every other round counted as queued
\* was recorded without a send.
C26_SendsAreCounted ==
  pc # "fatal"
    => /\ notifierCalls = result.emailsSent + result.emailsFailed
                            + (IF quotaExhausted THEN 1 ELSE 0)
       /\ quotaExhausted => result.emailsQueued >= 1
       /\ ~quotaExhausted => result.emailsQueued = 0

C26_Witness ==
  /\ runs = 1 /\ pc = "returned" /\ quotaExhausted
  /\ notifierCalls = 2 /\ result.emailsSent = 1 /\ result.emailsFailed = 0
  /\ result.emailsQueued = 3

\* C27: the table never holds two records under one key and never loses a
\* record: a step only adds a record at the end, and only for a key under
\* which the lookup found none and the table held none; any other write
\* changes a record in place, its id and key staying.
C27_OneRecordPerKey ==
  /\ [](\A n, m \in 1..Len(store) :
          n # m => store[n].fields.idempotency_key
                     # store[m].fields.idempotency_key)
  /\ [][/\ Len(store') >= Len(store)
         /\ \A n \in 1..Len(store) :
              /\ store'[n].id = store[n].id
              /\ store'[n].fields.idempotency_key
                   = store[n].fields.idempotency_key]_vars
  /\ [][Len(store') > Len(store)
          => /\ Len(store') = Len(store) + 1
             /\ lastUnit'.record = 0
             /\ lastUnit'.calls = <<[op |-> "create", id |-> 0]>>
             /\ Matching(store, lastUnit'.key) = {}
             /\ store'[Len(store')].fields.idempotency_key = lastUnit'.key]_vars

C27_Witness ==
  /\ runs = 2 /\ FORCE_SEND /\ pc = "returned" /\ prevRun.ended = "returned"
  /\ prevRun.writeFailed /\ thisRun.writeFailed
  /\ Cardinality(thisRun.keys) = 2 /\ Len(store) = 1
  /\ lastUnit.calls = <<[op |-> "update", id |-> 1]>>

\* C28: every stored record agrees with the last outcome written to it: a
\* record marked sent is processed and carries no failure reason other than
\* added_on_in_future; a record with any other status is not processed and
\* carries no mail_sent_at and no tat_seconds.
C28_RecordsMatchLastOutcome ==
  \A n \in 1..Len(store) :
    LET f == store[n].fields IN
    IF f.mail_status = "sent"
      THEN /\ f.processed = TRUE
           /\ HasField(f, "failure_reason")
                => f.failure_reason = "added_on_in_future"
      ELSE /\ f.processed = FALSE
           /\ ~HasField(f, "mail_sent_at")
           /\ ~HasField(f, "tat_seconds")

\* The e-mail texts of the model that are no address
InvalidEmails == {NotAnEmail, BarEmail}

Recorded(unit, status, reason) ==
  /\ unit.outcome = status /\ unit.reason = reason
  /\ ~unit.notified /\ Len(unit.calls) = 1

\* C23: a round that is not already processed takes the first of these that
\* applies: invalid e-mail -> skipped / invalid_email; no link -> skipped /
\* no_scheduling_link; invalid link -> skipped / invalid_url; a quota
\* failure earlier in the run -> queued / quota_exhausted; else the notifier
\* is invoked.  So an invalid e-mail wins over a missing link, and a missing
\* or invalid link is skipped, not queued, after a quota failure.
C23_FirstMatchingConditionWins ==
  (UnitOfThisRun /\ NotShortCircuited(lastUnit))
    => LET unit == lastUnit
           email == csvData[unit.row + 1].CandidateEmail
       IN IF email \in InvalidEmails
            THEN Recorded(unit, "skipped", "invalid_email")
          ELSE IF unit.link = Null
            THEN Recorded(unit, "skipped", "no_scheduling_link")
          ELSE IF ~validateUrl(unit.link).valid
            THEN Recorded(unit, "skipped", "invalid_url")
          ELSE IF unit.afterQuota
            THEN Recorded(unit, "queued", "quota_exhausted")
          ELSE unit.notified /\ unit.outcome \in {"sent", "failed", "queued"}

\* After a quota failure, a round with an invalid e-mail and no link
C23_Witness ==
  /\ UnitOfThisRun /\ NotShortCircuited(lastUnit)
  /\ csvData = <<OneRoundRow, NoAddressNoLinkRow>>
  /\ lastUnit.afterQuota /\ lastUnit.row = 1 /\ lastUnit.link = Null
  /\ lastUnit.outcome = "skipped" /\ lastUnit.reason = "invalid_email"

\* After a quota failure, rounds with a valid e-mail and a missing and an
\* invalid link
C23_WitnessLinks ==
  /\ UnitOfThisRun /\ NotShortCircuited(lastUnit)
  /\ csvData = <<OneRoundRow, [AcmeRow EXCEPT !.SchedulingMethod = PoorRounds]>>
  /\ lastUnit.afterQuota /\ lastUnit.row = 1 /\ lastUnit.link = "https://[bad"
  /\ lastUnit.outcome = "skipped" /\ lastUnit.reason = "invalid_url"

\* The keys computed so far in the run are those of distinct rounds
KeysDistinct == \A p, q \in thisRun.keys : p[3] = q[3] => p = q

\* The pass met a record although no process before this one computed its
\* key, or its key is that of an earlier round of the run
SeesSameRunWrite ==
  /\ UnitStep /\ lastUnit'.run = runs
  /\ \/ \E p \in thisRun.keys : p[3] = lastUnit'.key
     \/ lastUnit'.record # 0 /\ runs = 1

\* C29 as stated: within a run the keys of the rounds processed are
\* pairwise distinct, so no round is resolved against a write made earlier
\* in the same run.
C29_KeysPairwiseDistinct ==
  [](KeysDistinct) /\ [][~SeesSameRunWrite]_vars

\* The second of the two rows with bars is found already processed in the
\* first run over the file, the first row's record being under its key
C29_CollisionReached ==
  /\ runs = 1 /\ csvData = <<BarEmailRow, BarCandidateRow>>
  /\ lastUnit.row = 1 /\ lastUnit.emailValid /\ lastUnit.record = 1
  /\ lastUnit.outcome = "already_processed" /\ notifierCalls = 0

\* The row has a "|" in its candidate or candidate e-mail text (the company
\* and added-on texts of the model have none)
HoldsBar(row) == row.Candidate = BarCandidate \/ row.CandidateEmail = BarEmail

BarFree(file) == \A n \in 1..Len(file) : ~HoldsBar(file[n])

\* C29, amended: in a run over a file none of whose company, candidate,
\* candidate e-mail and added-on texts holds a "|", the keys of the rounds
\* processed are pairwise distinct, no round meets a record or a key of an
\* earlier round of the same run, and a pass invokes the notifier at most
\* once; so the notifier is invoked at most once per key per run.
C29_KeysDistinctWithoutBars ==
  /\ [](BarFree(csvData) => KeysDistinct)
  /\ [][BarFree(csvData) => ~SeesSameRunWrite]_vars
  /\ [][(BarFree(csvData) /\ runs' = runs)
          => /\ notifierCalls' <= notifierCalls + 1
             /\ notifierCalls' = notifierCalls + 1
                  => UnitStep /\ lastUnit'.notified]_vars

\* Two rows equal in every field are both sent, under two keys
C29_Witness ==
  /\ runs = 1 /\ pc = "returned" /\ csvData = <<OneRoundRow, OneRoundRow>>
  /\ result.emailsSent = 2 /\ notifierCalls = 2
  /\ Cardinality({p[3] : p \in thisRun.keys}) = 2

\* The process runs on the file of the one before it with one row more or
\* one row less in front
RowInserted ==
  runs = 2 /\ Len(csvData) > 1 /\ Tail(csvData) = prevRun.file
RowRemoved ==
  runs = 2 /\ Len(prevRun.file) > 1 /\ csvData = Tail(prevRun.file)

\* The row at index n (0-based) stood one place further down or up in the
\* file of the process before
Shifted(n) == RowRemoved \/ (RowInserted /\ n >= 1)

\* The pass treats the round as one never seen: no record is found, and the
\* round is sent when its e-mail and link are valid and no quota failure
\* came before it in the run
HandledAsNew(unit) ==
  /\ unit.record = 0
  /\ unit.outcome # "already_processed"
  /\ (ReachesBackpressureTest(unit) /\ ~unit.afterQuota) => unit.notified

\* C30 as stated: in a run on the file with a row inserted or removed in
\* front, the rounds of every shifted row are not recognised and are sent
\* again, without the force flag.
C30_ShiftedRowsSentAgain ==
  (UnitOfThisRun /\ Shifted(lastUnit.row)) => HandledAsNew(lastUnit)

\* No row stood at index n in the file of the process before, or the one
\* that did gives another source identifier at that index
FreshAt(n) ==
  \/ n + 1 > Len(prevRun.file)
  \/ createSourceIdentifier(prevRun.file[n + 1], n)
       # createSourceIdentifier(csvData[n + 1], n)

\* C30, amended: in a second run, on the table the first run left, given
\* the first run's file with one row inserted or removed in front, the
\* rounds of a shifted row are not recognised and are sent again without
\* the force flag, provided no text of the two files holds a "|" and the
\* row that stood at the shifted row's new position, if any, gives another
\* source identifier there.
C30_ShiftedRowsAtFreshPositionsSentAgain ==
  (/\ UnitOfThisRun /\ Shifted(lastUnit.row)
   /\ BarFree(csvData) /\ BarFree(prevRun.file)
   /\ FreshAt(lastUnit.row))
    => HandledAsNew(lastUnit)

\* The row "Bo" was sent from the second place and recorded; with the row
\* before it removed it is sent again, unforced, under a new record
C30_Witness ==
  /\ UnitOfThisRun /\ RowRemoved /\ ~FORCE_SEND
  /\ prevRun.file = <<OneRoundRow, BoRow>> /\ PrevRunPersisted
  /\ lastUnit.row = 0 /\ FreshAt(0) /\ lastUnit.record = 0
  /\ lastUnit.outcome = "sent" /\ ~lastUnit.writeFailed
  /\ Len(store) = 3 /\ store[2].fields.mail_status = "sent"
  /\ store[2].fields.candidate = "Bo" /\ store[3].fields.candidate = "Bo"

\* A row put in front moves the row "Jo" to the second place, where it is
\* sent again
C30_WitnessInserted ==
  /\ UnitOfThisRun /\ RowInserted /\ ~FORCE_SEND
  /\ prevRun.file = <<OneRoundRow>> /\ PrevRunPersisted
  /\ lastUnit.row = 1 /\ lastUnit.record = 0 /\ lastUnit.outcome = "sent"
  /\ store[1].fields.mail_status = "sent"

============================================================================
